---- MODULE Spec2Model ----
(***************************************************************************)
(* Model of axre's Json<T> extractor: src/types/json.rs and src/errors.rs. *)
(*                                                                         *)
(* One request is decoded.  Json::from_request builds a JsonBody from the  *)
(* request metadata and wraps it in an async block (the "outer" future);   *)
(* the executor then polls the outer future.  JsonBody::poll runs the      *)
(* content-type gate result, the declared-length pre-check and then an     *)
(* inner async block that aggregates the chunks of the payload stream and  *)
(* hands the buffer to the schema parser.                                  *)
(***************************************************************************)
EXTENDS Integers, Sequences, FiniteSets, TLC

(***************************************************************************)
(* Bounds of the model.                                                    *)
(***************************************************************************)
MaxItems == 3       \* items (chunks or transport errors) a stream yields before end
MaxChunkLen == 2    \* bytes in one chunk
MaxLimit == 2       \* largest limit set with JsonConfig::limit
MaxIdlePolls == 2   \* polls that find no result of the stream ready
SchemaMinLen == 1   \* smallest document the "Window" model accepts
SchemaMaxLen == 2   \* largest document the "Window" model accepts
MaxBytes == 3       \* bytes a stream of SpecBytes delivers in all
Decodes == 2        \* decodes in flight at once in SpecTwo

(***************************************************************************)
(* Program constants.                                                      *)
(***************************************************************************)
DefaultConfigLimit == 32768     \* JsonConfig::default, limit
UnresolvedLimit == 32768        \* from_request, unwrap_or((32768, None))
JsonBodyLimit == 262144         \* JsonBody::new, limit: 262_144

Bytes == {0, 1}

(***************************************************************************)
(* Option<T>.                                                              *)
(***************************************************************************)
OptNone(dflt) == [some |-> FALSE, v |-> dflt]
OptSome(x) == [some |-> TRUE, v |-> x]

(***************************************************************************)
(* Media types, as req.mime_type() hands them to JsonBody::new:            *)
(* Err(ParseError), Ok(None) or Ok(Some(mime)); a mime has a type, a       *)
(* subtype and an optional suffix.                                         *)
(***************************************************************************)
MkMime(t, st, sfx) == [type |-> t, subtype |-> st, suffix |-> sfx]
NoSuffix == OptNone("")
MimeAppJson == MkMime("application", "json", NoSuffix)
MimeVndJson == MkMime("application", "vnd.api", OptSome("json"))
MimeJsonXml == MkMime("application", "json", OptSome("xml"))
MimeTextPlain == MkMime("text", "plain", NoSuffix)
MimeAppXml == MkMime("application", "xml", NoSuffix)
Mimes == {MimeAppJson, MimeVndJson, MimeJsonXml, MimeTextPlain, MimeAppXml}

MimeErr == [st |-> "Err", mime |-> MimeTextPlain]
MimeAbsent == [st |-> "None", mime |-> MimeTextPlain]
MimeOk(m) == [st |-> "Some", mime |-> m]
MimeResults == {MimeErr, MimeAbsent} \cup {MimeOk(m) : m \in Mimes}

MIME_JSON == "json"

(***************************************************************************)
(* Content-type predicates of JsonConfig: the set of media types the       *)
(* closure returns true for.                                               *)
(***************************************************************************)
PredAll == Mimes
PredNone == {}
PredText == {MimeTextPlain}
Predicates == {PredAll, PredNone, PredText}

(***************************************************************************)
(* JsonConfig and the app state of the request.                            *)
(***************************************************************************)
MkConfig(l, ct) == [limit |-> l, content_type |-> ct]

\* JsonConfig::default
JsonConfigDefault == MkConfig(DefaultConfigLimit, OptNone(PredNone))

\* JsonConfig::limit
ConfigLimit(c, l) == [c EXCEPT !.limit = l]

\* JsonConfig::content_type
ConfigContentType(c, p) == [c EXCEPT !.content_type = OptSome(p)]

(***************************************************************************)
(* The content-length header: absent, or a raw value, a sequence of        *)
(* characters.  "x80" stands for a byte that is not visible ASCII.         *)
(***************************************************************************)
Digits == <<"0", "1", "2", "3", "4", "5", "6", "7", "8", "9">>
IsDigit(c) == \E i \in 1..10 : Digits[i] = c
DigitVal(c) == (CHOOSE i \in 1..10 : Digits[i] = c) - 1

HdrAbsent == OptNone(<<>>)
Hdr(raw) == OptSome(raw)

\* HeaderValue::to_str: Err when a byte is not visible ASCII
HeaderToStr(raw) ==
    IF \E i \in 1..Len(raw) : raw[i] = "x80" THEN OptNone(<<>>) ELSE OptSome(raw)

\* usize::MAX on a 64-bit target, as decimal digits
UsizeMaxDigits == <<1,8,4,4,6,7,4,4,0,7,3,7,0,9,5,5,1,6,1,5>>

RECURSIVE StripZeros(_)
StripZeros(ds) ==
    IF ds # <<>> /\ Head(ds) = 0 THEN StripZeros(Tail(ds)) ELSE ds

\* a > b for two naturals written as decimal digits without leading zeros
RECURSIVE LexGt(_, _)
LexGt(a, b) ==
    IF a = <<>> THEN FALSE
    ELSE IF Head(a) # Head(b) THEN Head(a) > Head(b)
    ELSE LexGt(Tail(a), Tail(b))

NatGt(a, b) ==
    IF Len(a) # Len(b) THEN Len(a) > Len(b) ELSE LexGt(a, b)

\* decimal digits of a natural of the model, without leading zeros
RECURSIVE ToDigits(_)
ToDigits(n) ==
    IF n = 0 THEN <<>> ELSE Append(ToDigits(n \div 10), n % 10)

\* str::parse::<usize>: an optional '+', then one or more decimal digits, the
\* value at most usize::MAX.  The value is kept as its decimal digits.
ParseUsize(s) ==
    LET ds == IF s # <<>> /\ Head(s) = "+" THEN Tail(s) ELSE s
    IN  IF s = <<>> THEN OptNone(<<>>)
        ELSE IF ds = <<>> THEN OptNone(<<>>)
        ELSE IF \E i \in 1..Len(ds) : ~IsDigit(ds[i]) THEN OptNone(<<>>)
        ELSE LET v == StripZeros([i \in 1..Len(ds) |-> DigitVal(ds[i])])
             IN  IF NatGt(v, UsizeMaxDigits) THEN OptNone(<<>>) ELSE OptSome(v)

\* req.headers().get("content-length").and_then(to_str).and_then(parse)
DeclaredLength(hdr) ==
    IF ~hdr.some THEN OptNone(<<>>)
    ELSE LET str == HeaderToStr(hdr.v)
         IN  IF ~str.some THEN OptNone(<<>>) ELSE ParseUsize(str.v)

\* mutant: the pre-check also refuses a declared length equal to the limit
LenGtLimitOrEqual(len, limit) == ~NatGt(ToDigits(limit), len)

\* len > limit, len a parsed usize and limit a usize of the model
LenGtLimit(len, limit) == NatGt(len, ToDigits(limit))

(***************************************************************************)
(* JsonPayloadError, Result and Poll.                                      *)
(***************************************************************************)
MkErr(k, c) == [kind |-> k, cause |-> c]
NoErr == MkErr("", "")
Overflow == MkErr("Overflow", "")
ContentType == MkErr("ContentType", "")
Deserialize(e) == MkErr("Deserialize", e)
Payload(e) == MkErr("Payload", e)

\* mutant: the transport error is replaced by a fixed one
FromPayloadErrorLossy(e) == Payload("Io")

\* impl From<ntex::http::error::PayloadError> for JsonPayloadError
FromPayloadError(e) == Payload(e)

\* mutant: Overflow is reported as 413 Payload Too Large
StatusCodePayloadTooLarge(e) ==
    IF e.kind = "Overflow" THEN 413 ELSE 400

\* impl WebResponseError for JsonPayloadError: status_code
StatusCode(e) ==
    CASE e.kind = "Overflow" -> 500
      [] e.kind = "ContentType" -> 400
      [] e.kind = "Deserialize" -> 400
      [] e.kind = "Payload" -> 400

Ok(v) == [ok |-> TRUE, val |-> v, err |-> NoErr]
Err(e) == [ok |-> FALSE, val |-> <<>>, err |-> e]

Pending == [st |-> "Pending", out |-> Err(NoErr)]
Ready(r) == [st |-> "Ready", out |-> r]
Panic == [st |-> "Panic", out |-> Err(NoErr)]

(***************************************************************************)
(* The schema parser U::parse_bytes.  U is the type parameter of Json<T>    *)
(* and JsonBody<U> (T: Model), chosen by the handler and not by this       *)
(* crate: a decode is given one of the models of Parsers, each a pure      *)
(* function of the buffer.  "Window" accepts the documents whose length is *)
(* within SchemaMinLen..SchemaMaxLen and yields the document; "Tagged"     *)
(* accepts the documents that start with the byte 0 and yields what        *)
(* follows it.                                                             *)
(***************************************************************************)
ParseOk(v) == [ok |-> TRUE, val |-> v, e |-> ""]
ParseErr(e) == [ok |-> FALSE, val |-> <<>>, e |-> e]

Parsers == {"Window", "Tagged"}

ParseBytes(u, body) ==
    IF u = "Window"
    THEN IF Len(body) < SchemaMinLen THEN ParseErr("min_length")
         ELSE IF Len(body) > SchemaMaxLen THEN ParseErr("max_length")
         ELSE ParseOk(body)
    ELSE IF body = <<>> THEN ParseErr("eof")
         ELSE IF Head(body) # 0 THEN ParseErr("tag")
         ELSE ParseOk(Tail(body))

(***************************************************************************)
(* The payload stream: a sequence of items, each a chunk of bytes or a     *)
(* transport error, followed by end of data.                               *)
(***************************************************************************)
Chunk(bs) == [isErr |-> FALSE, bytes |-> bs, e |-> ""]
StreamErr(e) == [isErr |-> TRUE, bytes |-> <<>>, e |-> e]
PayloadErrors == {"Incomplete", "Io"}

SeqsUpTo(S, n) == UNION {[1..m -> S] : m \in 0..n}
ChunksOver(B) == {Chunk(bs) : bs \in SeqsUpTo(B, MaxChunkLen)}
ItemsOver(B) == ChunksOver(B) \cup {StreamErr(e) : e \in PayloadErrors}
StreamsOver(B, n) == SeqsUpTo(ItemsOver(B), n)

(***************************************************************************)
(* JsonBody<U, JsonPayloadError>.  stream is TRUE while the JsonBody holds *)
(* the payload stream; fut is the inner async block of poll, which owns    *)
(* the stream and the buffer once it exists.                               *)
(***************************************************************************)
NoFut == [state |-> "None", limit |-> 0, body |-> <<>>]
NewFut(limit) == [state |-> "Unresumed", limit |-> limit, body |-> <<>>]

MkJsonBody(lim, len, st, e) ==
    [limit |-> lim, length |-> len, stream |-> st, err |-> e, fut |-> OptNone(NoFut)]

\* mutant: a missing or unparsable content type counts as json
IsJsonLenient(mimeRes, ctype) ==
    IF mimeRes.st = "Some"
    THEN \/ mimeRes.mime.subtype = MIME_JSON
         \/ mimeRes.mime.suffix = OptSome(MIME_JSON)
         \/ (ctype.some /\ mimeRes.mime \in ctype.v)
    ELSE TRUE

\* mutant: the predicate is consulted also when the header is missing or
\* unparsable
IsJsonPredicateAlways(mimeRes, ctype) ==
    \/ (ctype.some /\ mimeRes.mime \in ctype.v)
    \/ /\ mimeRes.st = "Some"
       /\ \/ mimeRes.mime.subtype = MIME_JSON
          \/ mimeRes.mime.suffix = OptSome(MIME_JSON)

\* the content-type check of JsonBody::new
IsJson(mimeRes, ctype) ==
    IF mimeRes.st = "Some"
    THEN \/ mimeRes.mime.subtype = MIME_JSON
         \/ mimeRes.mime.suffix = OptSome(MIME_JSON)
         \/ (ctype.some /\ mimeRes.mime \in ctype.v)
    ELSE FALSE

\* JsonBody::new
JsonBodyNew(r, ctype) ==
    IF ~IsJson(r.mime, ctype)
    THEN MkJsonBody(JsonBodyLimit, OptNone(<<>>), FALSE, OptSome(ContentType))
    ELSE MkJsonBody(JsonBodyLimit, DeclaredLength(r.clen), TRUE, OptNone(NoErr))

\* JsonBody::limit
JsonBodySetLimit(jb, limit) == [jb EXCEPT !.limit = limit]

\* mutant: without a configuration the limit of JsonBody::new is kept
ResolveConfigKeepsBodyLimit(appState) ==
    IF appState.some
    THEN [limit |-> appState.v.limit, ctype |-> appState.v.content_type]
    ELSE [limit |-> JsonBodyLimit, ctype |-> OptNone(PredNone)]

\* the (limit, ctype) pair from_request resolves from the app state
ResolveConfig(appState) ==
    IF appState.some
    THEN [limit |-> appState.v.limit, ctype |-> appState.v.content_type]
    ELSE [limit |-> UnresolvedLimit, ctype |-> OptNone(PredNone)]

\* the JsonBody that from_request builds
FromRequestBody(r, appState) ==
    LET c == ResolveConfig(appState)
    IN  JsonBodySetLimit(JsonBodyNew(r, c.ctype), c.limit)

(***************************************************************************)
(* The loop of the inner async block, run from position p of stream s with *)
(* k results of next() ready: it takes items until one ends the decode or  *)
(* next() is pending.  calls counts the next() calls made, peak is the     *)
(* largest buffer held, parsed the buffers handed to the parser.           *)
(***************************************************************************)
StepOut(body, p, calls, peak, parsed, res) ==
    [body |-> body, pos |-> p, calls |-> calls, peak |-> peak,
     parsed |-> parsed, res |-> res]

\* mutant: the schema error is reported without its cause
ParseOutcomeLossy(u, body) ==
    LET r == ParseBytes(u, body)
    IN  IF r.ok THEN Ok(r.val) ELSE Err(Deserialize("invalid"))

\* match U::parse_bytes(&body)
ParseOutcome(u, body) ==
    LET r == ParseBytes(u, body)
    IN  IF r.ok THEN Ok(r.val) ELSE Err(Deserialize(r.e))

Max(a, b) == IF a > b THEN a ELSE b

\* mutant: the check looks at the chunk alone, not at the cumulative size
ChunkOverflowsChunkOnly(body, chunk, limit) == Len(chunk) > limit

\* mutant: the check looks at the buffer alone, so the chunk is appended first
ChunkOverflowsBodyOnly(body, chunk, limit) == Len(body) > limit

\* mutant: the check rejects a buffer of exactly limit bytes
ChunkOverflowsOffByOne(body, chunk, limit) == (Len(body) + Len(chunk)) >= limit

\* the size check made on a chunk before it is appended
ChunkOverflows(body, chunk, limit) == (Len(body) + Len(chunk)) > limit

\* mutant: a transport error ends the loop and the partial buffer is handed
\* to the parser, whose verdict on it is reported with the error as its cause
ItemErrorParsesPartial(body, p, calls, peak, e) ==
    StepOut(<<>>, p + 1, calls + 1, peak, <<body>>, Ready(Err(Deserialize(e))))

\* item?: the stream's p+1-th item is an error, the block returns it converted
ItemError(body, p, calls, peak, e) ==
    StepOut(<<>>, p + 1, calls + 1, peak, <<>>, Ready(Err(FromPayloadError(e))))

\* mutant: after the overflow the rest of the stream is read and discarded
OverflowReturnDrains(s, p, calls, peak) ==
    StepOut(<<>>, Len(s), calls + (Len(s) - p) + 1, peak, <<>>, Ready(Err(Overflow)))

\* return Err(JsonPayloadError::Overflow) on the stream's p+1-th item
OverflowReturn(s, p, calls, peak) ==
    StepOut(<<>>, p + 1, calls + 1, peak, <<>>, Ready(Err(Overflow)))

\* mutant: the chunk is put in front of the buffer
ExtendFromSlicePrepends(body, chunk) == chunk \o body

\* mutant: the buffer holds the last chunk only
ExtendFromSliceReplaces(body, chunk) == chunk

\* body.extend_from_slice(&chunk)
ExtendFromSlice(body, chunk) == body \o chunk

RECURSIVE Aggregate(_, _, _, _, _, _, _, _)
Aggregate(s, limit, body, p, k, calls, peak, u) ==
    IF k = 0
    THEN StepOut(body, p, calls + 1, peak, <<>>, Pending)
    ELSE IF p = Len(s)
    THEN StepOut(<<>>, p, calls + 1, peak, <<body>>, Ready(ParseOutcome(u, body)))
    ELSE LET item == s[p + 1]
         IN  IF item.isErr
             THEN ItemError(body, p, calls, peak, item.e)
             ELSE IF ChunkOverflows(body, item.bytes, limit)
             THEN OverflowReturn(s, p, calls, peak)
             ELSE Aggregate(s, limit, ExtendFromSlice(body, item.bytes), p + 1, k - 1,
                            calls + 1, Max(peak, Len(body) + Len(item.bytes)), u)

(***************************************************************************)
(* A poll: [jb, pos, calls, peak, parsed, res].                            *)
(***************************************************************************)
PollOut(jb, p, calls, peak, parsed, res) ==
    [jb |-> jb, pos |-> p, calls |-> calls, peak |-> peak,
     parsed |-> parsed, res |-> res]

\* Pin::new(fut).poll(cx): resume the inner async block; resuming it after it
\* has returned panics and leaves it as it is
PollFut(jb, s, p, k, u) ==
    LET f == jb.fut.v
    IN  IF f.state \in {"Returned", "Panicked"}
        THEN PollOut(jb, p, 0, 0, <<>>, Panic)
        ELSE LET a == Aggregate(s, f.limit, f.body, p, k, 0, Len(f.body), u)
                 st == IF a.res.st = "Pending" THEN "Suspended" ELSE "Returned"
             IN  PollOut([jb EXCEPT !.fut = OptSome([f EXCEPT !.state = st,
                                                               !.body = a.body])],
                         a.pos, a.calls, a.peak, a.parsed, a.res)

\* mutant: poll without the declared-length pre-check
JsonBodyPollNoPrecheck(jb, s, p, k, u) ==
    IF jb.fut.some THEN PollFut(jb, s, p, k, u)
    ELSE IF jb.err.some
    THEN PollOut([jb EXCEPT !.err = OptNone(NoErr)], p, 0, 0, <<>>,
                 Ready(Err(jb.err.v)))
    ELSE IF ~jb.stream
    THEN PollOut([jb EXCEPT !.length = OptNone(<<>>)], p, 0, 0, <<>>, Panic)
    ELSE PollFut([jb EXCEPT !.length = OptNone(<<>>), !.stream = FALSE,
                            !.fut = OptSome(NewFut(jb.limit))],
                 s, p, k, u)

\* mutant: the declared length is compared with the limit after the body has
\* been read, and only when reading it succeeded
JsonBodyPollPrecheckLast(jb, s, p, k, u) ==
    LET po == IF jb.fut.some THEN PollFut(jb, s, p, k, u)
              ELSE IF jb.err.some
              THEN PollOut([jb EXCEPT !.err = OptNone(NoErr)], p, 0, 0, <<>>,
                           Ready(Err(jb.err.v)))
              ELSE IF ~jb.stream
              THEN PollOut(jb, p, 0, 0, <<>>, Panic)
              ELSE PollFut([jb EXCEPT !.stream = FALSE,
                                      !.fut = OptSome(NewFut(jb.limit))],
                           s, p, k, u)
    IN  IF /\ po.res.st = "Ready"
           /\ po.res.out.ok
           /\ po.jb.length.some
           /\ LenGtLimit(po.jb.length.v, po.jb.limit)
        THEN [po EXCEPT !.res = Ready(Err(Overflow))]
        ELSE po

\* the number a sequence of decimal digit values denotes
RECURSIVE DigitsToNat(_)
DigitsToNat(ds) ==
    IF ds = <<>> THEN 0
    ELSE 10 * DigitsToNat(SubSeq(ds, 1, Len(ds) - 1)) + ds[Len(ds)]

\* mutant: a declared length below the limit becomes the ceiling of the body
JsonBodyPollDeclaredCeiling(jb, s, p, k, u) ==
    IF jb.fut.some THEN PollFut(jb, s, p, k, u)
    ELSE IF jb.err.some
    THEN PollOut([jb EXCEPT !.err = OptNone(NoErr)], p, 0, 0, <<>>,
                 Ready(Err(jb.err.v)))
    ELSE LET taken == [jb EXCEPT !.length = OptNone(<<>>)]
             ceiling == IF jb.length.some /\ NatGt(ToDigits(jb.limit), jb.length.v)
                        THEN DigitsToNat(jb.length.v)
                        ELSE jb.limit
         IN  IF jb.length.some /\ LenGtLimit(jb.length.v, jb.limit)
             THEN PollOut(taken, p, 0, 0, <<>>, Ready(Err(Overflow)))
             ELSE IF ~jb.stream
             THEN PollOut(taken, p, 0, 0, <<>>, Panic)
             ELSE PollFut([taken EXCEPT !.stream = FALSE,
                                        !.fut = OptSome(NewFut(ceiling))],
                          s, p, k, u)

\* JsonBody::poll
JsonBodyPoll(jb, s, p, k, u) ==
    IF jb.fut.some THEN PollFut(jb, s, p, k, u)
    ELSE IF jb.err.some
    THEN PollOut([jb EXCEPT !.err = OptNone(NoErr)], p, 0, 0, <<>>,
                 Ready(Err(jb.err.v)))
    ELSE LET taken == [jb EXCEPT !.length = OptNone(<<>>)]
         IN  IF jb.length.some /\ LenGtLimit(jb.length.v, jb.limit)
             THEN PollOut(taken, p, 0, 0, <<>>, Ready(Err(Overflow)))
             ELSE IF ~jb.stream
             THEN PollOut(taken, p, 0, 0, <<>>, Panic)
             ELSE PollFut([taken EXCEPT !.stream = FALSE,
                                        !.fut = OptSome(NewFut(jb.limit))],
                          s, p, k, u)

(***************************************************************************)
(* Json<T> and the async block of Json::from_request, which awaits the     *)
(* JsonBody.  Resuming an async block that has returned panics, without    *)
(* polling the JsonBody.                                                   *)
(***************************************************************************)
Json(data) == <<data>>
IntoInner(j) == j[1]

\* mutant: a dropped JsonBody keeps its stream and its inner future
ReleasedKeepsStream(b) == b

\* a dropped JsonBody: the fields it owns (the stream, the inner future with
\* its buffer, the error) are dropped with it
Released(b) == MkJsonBody(b.limit, OptNone(<<>>), FALSE, OptNone(NoErr))

\* the poll of the awaited JsonBody has ended the block (a result, or a panic
\* that unwinds through it): the JsonBody the block owns is dropped
EndAwait(po) == [po EXCEPT !.jb = Released(po.jb)]

\* match fut.await { Err(e) => Err(e), Ok(data) => Ok(Json(data)) }
WrapJson(r) == IF r.ok THEN Ok(Json(r.val)) ELSE Err(r.err)

OuterOut(o, po, res) == [outer |-> o, po |-> po, res |-> res]

\* mutant: a resolved future keeps the JsonBody and polls it again
OuterPollUnfused(o, jb, s, p, k, u) ==
    LET po == JsonBodyPoll(jb, s, p, k, u)
    IN  IF po.res.st = "Pending" THEN OuterOut("Suspended", po, Pending)
        ELSE IF po.res.st = "Ready"
        THEN OuterOut("Returned", po, Ready(WrapJson(po.res.out)))
        ELSE OuterOut("Panicked", po, Panic)

OuterPoll(o, jb, s, p, k, u) ==
    IF o \in {"Returned", "Panicked"}
    THEN OuterOut(o, PollOut(jb, p, 0, 0, <<>>, Panic), Panic)
    ELSE LET po == JsonBodyPoll(jb, s, p, k, u)
         IN  IF po.res.st = "Pending" THEN OuterOut("Suspended", po, Pending)
             ELSE IF po.res.st = "Ready"
             THEN OuterOut("Returned", EndAwait(po), Ready(WrapJson(po.res.out)))
             ELSE OuterOut("Panicked", EndAwait(po), Panic)

(***************************************************************************)
(* State.                                                                  *)
(***************************************************************************)
VARIABLES
    req,        \* request metadata: [mime, clen]
    appState,   \* req.app_state::<JsonConfig>(): Option<JsonConfig>
    stream,     \* the items the payload stream yields, in order
    parser,     \* the model U the handler decodes into, one of Parsers
    payload,    \* "request" while the request owns the payload, else "taken"
    jb,         \* the JsonBody
    outer,      \* state of the future from_request returns
    pos,        \* items the stream has yielded so far
    nextCalls,  \* next() calls made on the stream
    bodyPeak,   \* largest length the buffer has had
    parsed,     \* the buffers handed to the parser
    outcomes,   \* the outputs the future has resolved with
    lastPoll,   \* result of the last poll: "None", "Pending", "Ready", "Panic"
    idlePolls,  \* polls that found no result of the stream ready
    status,     \* status code of the error response, 0 while there is none
    decs        \* SpecTwo: the decodes that share appState, one record each

vars == <<req, appState, stream, parser, payload, jb, outer, pos, nextCalls, bodyPeak,
          parsed, outcomes, lastPoll, idlePolls, status, decs>>

inputs == <<req, appState, stream, parser>>

NoJsonBody == MkJsonBody(0, OptNone(<<>>), FALSE, OptNone(NoErr))

(***************************************************************************)
(* Inputs.                                                                 *)
(***************************************************************************)
Requests(mimeResults, clens) == [mime : mimeResults, clen : clens]

ClenHeaders ==
    {HdrAbsent, Hdr(<<>>), Hdr(<<"0">>), Hdr(<<"1">>), Hdr(<<"2">>), Hdr(<<"3">>),
     Hdr(<<"0", "3">>), Hdr(<<"+", "3">>), Hdr(<<"-", "1">>), Hdr(<<"3", " ">>),
     Hdr(<<"a">>), Hdr(<<"x80">>), Hdr(<<"+">>),
     Hdr(<<"3", "2", "7", "6", "8">>), Hdr(<<"3", "2", "7", "6", "9">>),
     Hdr(<<"2", "6", "2", "1", "4", "5">>),
     Hdr(<<"1","8","4","4","6","7","4","4","0","7","3","7","0","9","5","5","1","6","1","5">>),
     Hdr(<<"1","8","4","4","6","7","4","4","0","7","3","7","0","9","5","5","1","6","1","6">>)}

Limits == 0..MaxLimit

\* the configurations JsonConfig's builder methods make
Configs ==
    {JsonConfigDefault}
    \cup {ConfigLimit(JsonConfigDefault, l) : l \in Limits}
    \cup {ConfigContentType(JsonConfigDefault, pr) : pr \in Predicates}
    \cup {ConfigContentType(ConfigLimit(JsonConfigDefault, l), pr) :
            l \in Limits, pr \in Predicates}

AppStates == {OptNone(JsonConfigDefault)} \cup {OptSome(c) : c \in Configs}

InitWith(requests, appStates, streams, parsers) ==
    /\ req \in requests
    /\ appState \in appStates
    /\ stream \in streams
    /\ parser \in parsers
    /\ payload = "request"
    /\ jb = NoJsonBody
    /\ outer = "NotCreated"
    /\ pos = 0
    /\ nextCalls = 0
    /\ bodyPeak = 0
    /\ parsed = <<>>
    /\ outcomes = <<>>
    /\ lastPoll = "None"
    /\ idlePolls = 0
    /\ status = 0

(***************************************************************************)
(* Actions.                                                                *)
(***************************************************************************)
\* Json::from_request
FromRequest ==
    /\ outer = "NotCreated"
    /\ jb' = FromRequestBody(req, appState)
    /\ payload' = IF jb'.stream THEN "taken" ELSE "request"
    /\ outer' = "Unresumed"
    /\ UNCHANGED <<inputs, pos, nextCalls, bodyPeak, parsed, outcomes, lastPoll,
                   idlePolls, status, decs>>

\* the executor polls the future; k results of the stream's next() are ready
Poll(k) ==
    /\ outer \in {"Unresumed", "Suspended", "Returned", "Panicked"}
    /\ k = 0 => idlePolls < MaxIdlePolls
    /\ LET o == OuterPoll(outer, jb, stream, pos, k, parser)
       IN  /\ outer' = o.outer
           /\ jb' = o.po.jb
           /\ pos' = o.po.pos
           /\ nextCalls' = nextCalls + o.po.calls
           /\ bodyPeak' = Max(bodyPeak, o.po.peak)
           /\ parsed' = parsed \o o.po.parsed
           /\ outcomes' = IF o.res.st = "Ready" THEN Append(outcomes, o.res.out)
                          ELSE outcomes
           /\ lastPoll' = o.res.st
           /\ idlePolls' = IF k = 0 /\ o.res.st = "Pending" THEN idlePolls + 1
                           ELSE idlePolls
           /\ status' = IF o.res.st = "Ready" /\ ~o.res.out.ok
                        THEN StatusCode(o.res.out.err)
                        ELSE status
    /\ UNCHANGED <<inputs, payload, decs>>

\* the task is cancelled: the future is dropped before it has resolved, and the
\* JsonBody, its stream and its buffer are released
Drop ==
    /\ outer \in {"Unresumed", "Suspended"}
    /\ outer' = "Dropped"
    /\ jb' = Released(jb)
    /\ UNCHANGED <<inputs, payload, pos, nextCalls, bodyPeak, parsed, outcomes,
                   lastPoll, idlePolls, status, decs>>

Next ==
    \/ FromRequest
    \/ \E k \in 0..(Len(stream) - pos + 1) : Poll(k)
    \/ Drop

(***************************************************************************)
(* Spec: every stream of the bounds whose chunks are runs of one byte       *)
(* value (the aggregator looks at sizes only), with requests that pass or  *)
(* fail the gate, declare no length, a malformed one, a small or a large   *)
(* one, and with no configuration or one that sets the limit.  The        *)
(* handler decodes into the "Window" model.                                *)
(***************************************************************************)
SizeStreams == StreamsOver({0}, MaxItems)
CoreMimeResults == {MimeOk(MimeAppJson), MimeOk(MimeTextPlain)}
CoreClenHeaders == {HdrAbsent, Hdr(<<"a">>), Hdr(<<"1">>), Hdr(<<"3">>)}
CoreAppStates ==
    {OptNone(JsonConfigDefault)}
    \cup {OptSome(ConfigLimit(JsonConfigDefault, l)) : l \in Limits}

Init ==
    /\ InitWith(Requests(CoreMimeResults, CoreClenHeaders), CoreAppStates, SizeStreams,
                {"Window"})
    /\ decs = <<>>

Spec == Init /\ [][Next]_vars

(***************************************************************************)
(* SpecMeta: every request metadata and configuration of the model, with a *)
(* few streams.                                                            *)
(***************************************************************************)
MetaStreams ==
    {<<>>,
     <<Chunk(<<0>>)>>,
     <<Chunk(<<0, 1>>), Chunk(<<1>>)>>,
     <<StreamErr("Io")>>,
     <<Chunk(<<1>>), StreamErr("Incomplete")>>}

InitMeta ==
    /\ InitWith(Requests(MimeResults, ClenHeaders), AppStates, MetaStreams, Parsers)
    /\ decs = <<>>

SpecMeta == InitMeta /\ [][Next]_vars

(***************************************************************************)
(* SpecBytes: every way of delivering a byte sequence of at most MaxBytes  *)
(* bytes in at most MaxItems chunks, empty chunks included, on a stream    *)
(* without transport errors, for requests that pass or fail the gate and   *)
(* declare no length or a large one, the configurations of Spec, and each  *)
(* model of Parsers.                                                       *)
(***************************************************************************)
RECURSIVE TotalLen(_)
TotalLen(s) == IF s = <<>> THEN 0 ELSE Len(Head(s).bytes) + TotalLen(Tail(s))

ByteStreams ==
    {s \in SeqsUpTo(ChunksOver(Bytes), MaxItems) : TotalLen(s) <= MaxBytes}

ByteClenHeaders == {HdrAbsent, Hdr(<<"3">>)}

InitBytes ==
    /\ InitWith(Requests(CoreMimeResults, ByteClenHeaders), CoreAppStates, ByteStreams,
                Parsers)
    /\ decs = <<>>

SpecBytes == InitBytes /\ [][Next]_vars

(***************************************************************************)
(* SpecTwo: Decodes requests in flight at once on one application, whose   *)
(* state holds the JsonConfig they all read.  Each decode has its own      *)
(* request, payload stream and future; the executor polls them in any      *)
(* order, a decode giving way to the others when its next() is pending.    *)
(* The handler decodes into the "Window" model.                            *)
(***************************************************************************)
MkDec(r, s, b, o, p, outs) ==
    [req |-> r, stream |-> s, jb |-> b, outer |-> o, pos |-> p, outcomes |-> outs]

\* mutant: the first request to read the configuration takes it out of the
\* application state
AppStateTaken(a) == OptNone(JsonConfigDefault)

\* req.app_state::<JsonConfig>() lends the configuration: Option<&JsonConfig>
AppStateBorrowed(a) == a

TwoRequests ==
    {[mime |-> MimeOk(MimeAppJson), clen |-> HdrAbsent],
     [mime |-> MimeOk(MimeTextPlain), clen |-> HdrAbsent],
     [mime |-> MimeOk(MimeAppJson), clen |-> Hdr(<<"3">>)]}

TwoStreams ==
    {<<Chunk(<<0>>), Chunk(<<1>>)>>,
     <<Chunk(<<1>>), Chunk(<<1, 0>>)>>,
     <<Chunk(<<1>>), StreamErr("Io")>>}

TwoAppStates ==
    {OptNone(JsonConfigDefault),
     OptSome(ConfigLimit(JsonConfigDefault, 1)),
     OptSome(ConfigContentType(ConfigLimit(JsonConfigDefault, 2), PredText))}

InitTwo ==
    /\ InitWith({[mime |-> MimeAbsent, clen |-> HdrAbsent]}, TwoAppStates, {<<>>},
                {"Window"})
    /\ decs \in [1..Decodes ->
                    {MkDec(r, s, NoJsonBody, "NotCreated", 0, <<>>) :
                        r \in TwoRequests, s \in TwoStreams}]

\* Json::from_request for the request of decode i
DecFromRequest(i) ==
    /\ decs[i].outer = "NotCreated"
    /\ decs' = [decs EXCEPT ![i].jb = FromRequestBody(decs[i].req, appState),
                            ![i].outer = "Unresumed"]
    /\ appState' = AppStateBorrowed(appState)
    /\ UNCHANGED <<req, stream, parser, payload, jb, outer, pos, nextCalls, bodyPeak, parsed,
                   outcomes, lastPoll, idlePolls, status>>

\* the executor polls the future of decode i; k results of its stream's next()
\* are ready
DecPoll(i, k) ==
    /\ decs[i].outer \in {"Unresumed", "Suspended", "Returned", "Panicked"}
    /\ LET o == OuterPoll(decs[i].outer, decs[i].jb, decs[i].stream, decs[i].pos, k,
                          parser)
       IN  decs' = [decs EXCEPT ![i].outer = o.outer,
                                ![i].jb = o.po.jb,
                                ![i].pos = o.po.pos,
                                ![i].outcomes =
                                    IF o.res.st = "Ready" THEN Append(@, o.res.out)
                                    ELSE @]
    /\ UNCHANGED <<inputs, payload, jb, outer, pos, nextCalls, bodyPeak, parsed,
                   outcomes, lastPoll, idlePolls, status>>

\* the task of decode i is cancelled
DecDrop(i) ==
    /\ decs[i].outer \in {"Unresumed", "Suspended"}
    /\ decs' = [decs EXCEPT ![i].outer = "Dropped", ![i].jb = Released(@)]
    /\ UNCHANGED <<inputs, payload, jb, outer, pos, nextCalls, bodyPeak, parsed,
                   outcomes, lastPoll, idlePolls, status>>

NextTwo ==
    \E i \in 1..Decodes :
        \/ DecFromRequest(i)
        \/ \E k \in 0..(Len(decs[i].stream) - decs[i].pos + 1) : DecPoll(i, k)
        \/ DecDrop(i)

SpecTwo == InitTwo /\ [][NextTwo]_vars

(***************************************************************************)
(* Vocabulary of the properties, in terms of the inputs of a decode.       *)
(***************************************************************************)
Created == outer # "NotCreated"
Polled == lastPoll # "None"
Resolved == outcomes # <<>>

\* the limit configured for the request
Limit == ResolveConfig(appState).limit

\* the request's content type matches: the header is present and parsable and
\* its subtype or suffix is json or the configured predicate accepts it
ContentTypeMatches ==
    /\ req.mime.st = "Some"
    /\ \/ req.mime.mime.subtype = "json"
       \/ (req.mime.mime.suffix.some /\ req.mime.mime.suffix.v = "json")
       \/ /\ appState.some
          /\ appState.v.content_type.some
          /\ req.mime.mime \in appState.v.content_type.v

\* the declared content-length parses to an integer above the limit
DeclaredAboveLimit ==
    /\ DeclaredLength(req.clen).some
    /\ NatGt(DeclaredLength(req.clen).v, ToDigits(Limit))

\* the items of s before its first transport error
RECURSIVE ChunkPrefix(_)
ChunkPrefix(s) ==
    IF s = <<>> \/ Head(s).isErr THEN <<>> ELSE <<Head(s)>> \o ChunkPrefix(Tail(s))

\* the bytes of a sequence of chunks, in order
RECURSIVE Concat(_)
Concat(cs) == IF cs = <<>> THEN <<>> ELSE Head(cs).bytes \o Concat(Tail(cs))

ErrorFree(s) == \A i \in 1..Len(s) : ~s[i].isErr
PrefixBytes == Concat(ChunkPrefix(stream))
FirstError == stream[Len(ChunkPrefix(stream)) + 1]

\* the buffer the inner async block holds, empty when there is none
Buffer == IF jb.fut.some THEN jb.fut.v.body ELSE <<>>

(***************************************************************************)
(* C1  Gate precedes read: when the request's content type does not match, *)
(* the decode resolves to Failure(ContentType), no next() call is ever     *)
(* made on the stream, no item is pulled and the payload stays with the    *)
(* request, whatever the declared length, the limit and the stream are.    *)
(***************************************************************************)
C1_GatePrecedesRead ==
    (Created /\ ~ContentTypeMatches) =>
        /\ nextCalls = 0
        /\ pos = 0
        /\ payload = "request"
        /\ ~jb.fut.some
        /\ (Polled => outcomes = <<Err(ContentType)>>)

C1_Witness ==
    /\ ~ContentTypeMatches
    /\ DeclaredAboveLimit
    /\ stream # <<>>
    /\ lastPoll = "Panic"
    /\ outcomes = <<Err(ContentType)>>
    /\ nextCalls = 0

(***************************************************************************)
(* C2  Fast rejection: when the content type matches and the declared      *)
(* content-length parses to an integer above the limit, the outcome is     *)
(* Failure(Overflow), no next() call is made and no buffer is created,     *)
(* also when the actual body is smaller than the limit.                    *)
(***************************************************************************)
C2_FastRejection ==
    (Created /\ ContentTypeMatches /\ DeclaredAboveLimit) =>
        /\ nextCalls = 0
        /\ pos = 0
        /\ ~jb.fut.some
        /\ bodyPeak = 0
        /\ (Polled => outcomes = <<Err(Overflow)>>)

C2_Witness ==
    /\ ContentTypeMatches
    /\ DeclaredAboveLimit
    /\ ErrorFree(stream)
    /\ stream # <<>>
    /\ Len(PrefixBytes) < Limit
    /\ outcomes = <<Err(Overflow)>>
    /\ nextCalls = 0

(***************************************************************************)
(* C3  Bounded memory outcome: when the content type matches and the       *)
(* chunks of the stream add up to more than the limit, a decode that       *)
(* resolves resolves to Failure(Overflow), whether the declared length is  *)
(* absent, unparsable, above the limit or understates the size.            *)
(***************************************************************************)
C3_BoundedMemoryOutcome ==
    (Resolved /\ ContentTypeMatches /\ Len(PrefixBytes) > Limit) =>
        outcomes = <<Err(Overflow)>>

C3_Witness ==
    /\ ContentTypeMatches
    /\ DeclaredLength(req.clen).some
    /\ ~DeclaredAboveLimit
    /\ Len(PrefixBytes) > Limit
    /\ pos >= 2
    /\ outcomes = <<Err(Overflow)>>

(***************************************************************************)
(* C4  Buffer invariant: the buffer is never longer than the limit, in any *)
(* state of a decode; the chunk that would push it above the limit is not  *)
(* appended.                                                               *)
(***************************************************************************)
C4_BufferInvariant ==
    Created => (Len(Buffer) <= Limit /\ bodyPeak <= Limit)

C4_Witness ==
    /\ outcomes = <<Err(Overflow)>>
    /\ pos >= 2
    /\ bodyPeak = Limit
    /\ bodyPeak > 0
    /\ Len(PrefixBytes) > Limit + 1

(***************************************************************************)
(* C5  Exact-limit boundary, as claimed: with a matching content type and  *)
(* an error-free stream, a body of exactly limit bytes that the parser     *)
(* accepts succeeds, and a body of limit + 1 bytes fails with Overflow,    *)
(* for every limit and every split into chunks.  It fails when the         *)
(* declared length is above the limit: the pre-check then rejects a body   *)
(* of exactly limit bytes.                                                 *)
(***************************************************************************)
C5_ExactLimitAsClaimed ==
    (Resolved /\ ContentTypeMatches /\ ErrorFree(stream)) =>
        /\ (Len(Concat(stream)) = Limit /\ ParseBytes(parser, Concat(stream)).ok) =>
               outcomes = <<Ok(Json(ParseBytes(parser, Concat(stream)).val))>>
        /\ Len(Concat(stream)) = Limit + 1 => outcomes = <<Err(Overflow)>>

(***************************************************************************)
(* C5  Exact-limit boundary, amended: the body of exactly limit bytes      *)
(* succeeds provided the declared length, when it parses, is not above the *)
(* limit; the body of limit + 1 bytes fails with Overflow in every case.   *)
(***************************************************************************)
C5_ExactLimit ==
    (Resolved /\ ContentTypeMatches /\ ErrorFree(stream)) =>
        /\ (/\ Len(Concat(stream)) = Limit
            /\ ParseBytes(parser, Concat(stream)).ok
            /\ ~DeclaredAboveLimit) =>
               outcomes = <<Ok(Json(ParseBytes(parser, Concat(stream)).val))>>
        /\ Len(Concat(stream)) = Limit + 1 => outcomes = <<Err(Overflow)>>

C5_Witness ==
    /\ ContentTypeMatches
    /\ Len(stream) = 2
    /\ ErrorFree(stream)
    /\ stream[1].bytes # <<>>
    /\ stream[2].bytes # <<>>
    /\ Len(Concat(stream)) = Limit
    /\ DeclaredLength(req.clen).some
    /\ outcomes = <<Ok(Json(Concat(stream)))>>

(***************************************************************************)
(* C6  Transport failure propagation: when the content type matches, the   *)
(* pre-check passes and the stream yields a transport error after chunks   *)
(* that were all accepted, the outcome is Failure(Payload) wrapping that   *)
(* error, the parser is never invoked and the buffer is discarded.         *)
(***************************************************************************)
C6_TransportFailure ==
    (/\ Resolved
     /\ ContentTypeMatches
     /\ ~DeclaredAboveLimit
     /\ ~ErrorFree(stream)
     /\ Len(PrefixBytes) <= Limit) =>
        /\ outcomes = <<Err(Payload(FirstError.e))>>
        /\ parsed = <<>>
        /\ Buffer = <<>>
        /\ pos = Len(ChunkPrefix(stream)) + 1

C6_Witness ==
    /\ outcomes = <<Err(Payload("Incomplete"))>>
    /\ pos = 2
    /\ bodyPeak >= 1
    /\ parsed = <<>>

(***************************************************************************)
(* C7  Schema failure passthrough: when the content type matches, the body *)
(* is within the limit, the stream ends without error and the parser has   *)
(* returned, the outcome is Failure(Deserialize(e)) for the parser's error *)
(* e, unchanged, and Success(v) for the parser's value v.                  *)
(***************************************************************************)
C7_SchemaPassthrough ==
    (/\ Resolved
     /\ ContentTypeMatches
     /\ ErrorFree(stream)
     /\ Len(Concat(stream)) <= Limit
     /\ parsed # <<>>) =>
        /\ Len(parsed) = 1
        /\ LET r == ParseBytes(parser, parsed[1])
           IN  outcomes = IF r.ok THEN <<Ok(Json(r.val))>>
                          ELSE <<Err(Deserialize(r.e))>>

C7_Witness ==
    /\ ContentTypeMatches
    /\ Len(Concat(stream)) <= Limit
    /\ pos = 2
    /\ Len(parsed) = 1
    /\ outcomes = <<Err(Deserialize("max_length"))>>

(***************************************************************************)
(* C8  Terminal outcomes: at most one outcome is ever produced, and once   *)
(* the decode has resolved (with any outcome, ContentType and the          *)
(* pre-check Overflow included) a later poll changes neither the outcome   *)
(* nor the JsonBody, reads nothing from the stream and invokes no parser.  *)
(***************************************************************************)
C8_TerminalOutcomes ==
    [][/\ Len(outcomes') <= 1
       /\ Resolved =>
            /\ outcomes' = outcomes
            /\ jb' = jb
            /\ outer' = outer
            /\ pos' = pos
            /\ nextCalls' = nextCalls
            /\ parsed' = parsed
            /\ bodyPeak' = bodyPeak]_vars

C8_Witness ==
    /\ outcomes = <<Err(Overflow)>>
    /\ nextCalls = 0
    /\ stream # <<>>
    /\ outer = "Returned"
    /\ lastPoll = "Panic"

(***************************************************************************)
(* C9  Gate decision: the gate proceeds (the payload is taken and the      *)
(* outcome is not ContentType) exactly when the content-type header is     *)
(* present and parsable and its subtype is json, or its suffix is json, or *)
(* a configured predicate accepts it; otherwise the request is rejected    *)
(* with ContentType, also when a configured predicate accepts every type.  *)
(***************************************************************************)
C9_GateDecision ==
    Created =>
        /\ (payload = "taken") <=> ContentTypeMatches
        /\ (Polled /\ ~ContentTypeMatches) => outcomes = <<Err(ContentType)>>
        /\ (Resolved /\ ContentTypeMatches) => outcomes[1].err.kind # "ContentType"

C9_Witness ==
    /\ req.mime.st = "None"
    /\ appState.some
    /\ appState.v.content_type = OptSome(PredAll)
    /\ payload = "request"
    /\ outcomes = <<Err(ContentType)>>

(***************************************************************************)
(* C10  Dual size defaults, as claimed: with a default configuration the   *)
(* aggregator enforces 32768 bytes, and with no configuration resolved it  *)
(* enforces 262144 bytes.                                                  *)
(***************************************************************************)
C10_DualDefaultsAsClaimed ==
    jb.fut.some =>
        /\ appState = OptSome(JsonConfigDefault) => jb.fut.v.limit = 32768
        /\ ~appState.some => jb.fut.v.limit = 262144

(***************************************************************************)
(* C10  Dual size defaults, amended: with a default configuration and with *)
(* no configuration resolved alike, the ceiling that the pre-check and the *)
(* aggregator enforce is 32768 bytes; the 262144 that JsonBody::new sets   *)
(* is replaced by from_request and never enforced.                         *)
(***************************************************************************)
C10_DualDefaults ==
    (Created /\ (~appState.some \/ appState = OptSome(JsonConfigDefault))) =>
        /\ jb.limit = 32768
        /\ jb.fut.some => jb.fut.v.limit = 32768
        /\ (Polled /\ ContentTypeMatches /\ req.clen = Hdr(<<"3", "2", "7", "6", "9">>))
               => outcomes = <<Err(Overflow)>>
        /\ (Polled /\ ContentTypeMatches /\ req.clen = Hdr(<<"3", "2", "7", "6", "8">>))
               => (pos > 0 \/ nextCalls > 0)

C10_Witness ==
    /\ ~appState.some
    /\ req.clen = Hdr(<<"3", "2", "7", "6", "8">>)
    /\ jb.fut.some
    /\ jb.fut.v.limit = 32768
    /\ pos >= 1

(***************************************************************************)
(* C11  Status mapping: every failure has one of the four kinds            *)
(* ContentType, Overflow, Deserialize, Payload, and the status code of the *)
(* error response is a function of the kind alone: 400, 500, 400, 400,     *)
(* whatever the wrapped cause is; a success has no error status.           *)
(***************************************************************************)
C11_StatusMapping ==
    Resolved =>
        IF outcomes[1].ok THEN status = 0
        ELSE /\ outcomes[1].err.kind \in {"ContentType", "Overflow", "Deserialize", "Payload"}
             /\ outcomes[1].err.kind = "ContentType" => status = 400
             /\ outcomes[1].err.kind = "Overflow" => status = 500
             /\ outcomes[1].err.kind = "Deserialize" => status = 400
             /\ outcomes[1].err.kind = "Payload" => status = 400

C11_Witness ==
    /\ outcomes = <<Err(Overflow)>>
    /\ pos >= 1
    /\ status = 500

(***************************************************************************)
(* C12  Cancellation leaves no trace: when the decode task is dropped at a *)
(* suspension point, no outcome has been or is ever produced, the parser   *)
(* is not invoked on the partial buffer, the stream and the buffer are     *)
(* released and no further next() call is made on the stream.              *)
(***************************************************************************)
C12_CancellationLeavesNoTrace ==
    [][outer' = "Dropped" =>
          /\ outcomes' = <<>>
          /\ parsed' = <<>>
          /\ status' = 0
          /\ nextCalls' = nextCalls
          /\ pos' = pos
          /\ ~jb'.fut.some
          /\ ~jb'.stream]_vars

C12_Witness ==
    /\ outer = "Dropped"
    /\ lastPoll = "Pending"
    /\ pos >= 1
    /\ pos < Len(stream)
    /\ bodyPeak >= 1
    /\ outcomes = <<>>

(***************************************************************************)
(* C13  Pre-check is exact: on a request that passes the gate, the         *)
(* pre-check fails (Overflow with zero stream reads) if and only if the    *)
(* content-length header is present, is the decimal text of an unsigned    *)
(* machine integer and that integer is strictly above the limit.  An       *)
(* absent, empty, signed-negative, padded, non-numeric, non-ASCII or       *)
(* out-of-range header, or one equal to or below the limit, never fails    *)
(* it: the decode goes on to read the stream.                              *)
(***************************************************************************)
\* the headers that are not the text of an unsigned machine integer
C13_NotAnInteger ==
    {HdrAbsent, Hdr(<<>>), Hdr(<<"-", "1">>), Hdr(<<"3", " ">>), Hdr(<<"a">>),
     Hdr(<<"x80">>), Hdr(<<"+">>),
     Hdr(<<"1","8","4","4","6","7","4","4","0","7","3","7","0","9","5","5","1","6","1","6">>)}

\* the headers that are, with the integer each denotes
C13_IntegerOf ==
    {<<Hdr(<<"0">>), 0>>, <<Hdr(<<"1">>), 1>>, <<Hdr(<<"2">>), 2>>,
     <<Hdr(<<"3">>), 3>>, <<Hdr(<<"0", "3">>), 3>>, <<Hdr(<<"+", "3">>), 3>>,
     <<Hdr(<<"3", "2", "7", "6", "8">>), 32768>>,
     <<Hdr(<<"3", "2", "7", "6", "9">>), 32769>>,
     <<Hdr(<<"2", "6", "2", "1", "4", "5">>), 262145>>}

\* the largest unsigned machine integer, above every limit of the model
C13_UsizeMax ==
    Hdr(<<"1","8","4","4","6","7","4","4","0","7","3","7","0","9","5","5","1","6","1","5">>)

C13_ShouldFail ==
    \/ req.clen = C13_UsizeMax
    \/ \E e \in C13_IntegerOf : e[1] = req.clen /\ e[2] > Limit

C13_PrecheckFailed == nextCalls = 0 /\ outcomes = <<Err(Overflow)>>

C13_PrecheckExact ==
    /\ req.clen \in C13_NotAnInteger \cup {e[1] : e \in C13_IntegerOf} \cup {C13_UsizeMax}
    /\ (Created /\ ContentTypeMatches /\ Polled) =>
          /\ C13_PrecheckFailed <=> C13_ShouldFail
          /\ ~C13_ShouldFail => nextCalls >= 1

\* a declared length equal to the limit went on to the aggregator
C13_Witness ==
    /\ ContentTypeMatches
    /\ req.clen = Hdr(<<"2">>)
    /\ Limit = 2
    /\ Polled
    /\ nextCalls >= 1
    /\ pos >= 1

(***************************************************************************)
(* C14  Parser hand-off: the parser is invoked at most once per decode,    *)
(* and only after the stream has signalled end-of-data with no transport   *)
(* error and no overflow seen; it is never invoked on a decode that ends   *)
(* in ContentType, Overflow or Payload.                                    *)
(***************************************************************************)
C14_ParserHandOff ==
    /\ Len(parsed) <= 1
    /\ parsed # <<>> =>
          /\ ContentTypeMatches
          /\ ~DeclaredAboveLimit
          /\ ErrorFree(stream)
          /\ pos = Len(stream)
          /\ nextCalls >= Len(stream) + 1
          /\ Len(Concat(stream)) <= Limit
          /\ Resolved
          /\ outcomes[1].ok \/ outcomes[1].err.kind = "Deserialize"
    /\ (Resolved /\ ~outcomes[1].ok
           /\ outcomes[1].err.kind \in {"ContentType", "Overflow", "Payload"}) =>
          parsed = <<>>

C14_Witness ==
    /\ Len(parsed) = 1
    /\ Len(stream) >= 2
    /\ pos = Len(stream)
    /\ Len(parsed[1]) = 2
    /\ outcomes = <<Ok(Json(parsed[1]))>>

(***************************************************************************)
(* The outcome the stages determine for a request r, a configuration a and *)
(* a stream s, stage by stage: the gate, the pre-check, the aggregator     *)
(* (the first item that is a transport error or takes the cumulative size  *)
(* above the limit decides), the parser.                                   *)
(***************************************************************************)
Matches(r, a) ==
    /\ r.mime.st = "Some"
    /\ \/ r.mime.mime.subtype = "json"
       \/ (r.mime.mime.suffix.some /\ r.mime.mime.suffix.v = "json")
       \/ /\ a.some
          /\ a.v.content_type.some
          /\ r.mime.mime \in a.v.content_type.v

LimitOf(a) == ResolveConfig(a).limit

DeclaredAbove(r, a) ==
    /\ DeclaredLength(r.clen).some
    /\ NatGt(DeclaredLength(r.clen).v, ToDigits(LimitOf(a)))

\* the items of s that end the aggregation
Offending(s, limit) ==
    {i \in 1..Len(s) : s[i].isErr \/ Len(Concat(SubSeq(s, 1, i))) > limit}

First(S) == CHOOSE i \in S : \A j \in S : i <= j

AggregatorOutcome(s, limit, u) ==
    IF Offending(s, limit) = {}
    THEN LET r == ParseBytes(u, Concat(s))
         IN  IF r.ok THEN Ok(Json(r.val)) ELSE Err(Deserialize(r.e))
    ELSE LET i == First(Offending(s, limit))
         IN  IF s[i].isErr THEN Err(Payload(s[i].e)) ELSE Err(Overflow)

ExpectedOutcomeOf(r, a, s, u) ==
    IF ~Matches(r, a) THEN Err(ContentType)
    ELSE IF DeclaredAbove(r, a) THEN Err(Overflow)
    ELSE AggregatorOutcome(s, LimitOf(a), u)

(***************************************************************************)
(* C15  Failure precedence follows the stage order gate, pre-check,        *)
(* aggregator, parser: a request that fails the gate yields ContentType    *)
(* whatever its declared length and body; one that passes the gate with a  *)
(* declared length above the limit yields Overflow whatever its stream     *)
(* holds; otherwise the first offending item of the stream decides, and    *)
(* the parser's verdict comes last.                                        *)
(***************************************************************************)
C15_FailurePrecedence ==
    Resolved =>
        /\ ~ContentTypeMatches => outcomes[1] = Err(ContentType)
        /\ (ContentTypeMatches /\ DeclaredAboveLimit) => outcomes[1] = Err(Overflow)
        /\ outcomes[1] = ExpectedOutcomeOf(req, appState, stream, parser)

\* gate passed, declared length above the limit, and the stream would have
\* failed with a transport error
C15_Witness ==
    /\ ContentTypeMatches
    /\ DeclaredAboveLimit
    /\ ~ErrorFree(stream)
    /\ outcomes = <<Err(Overflow)>>

(***************************************************************************)
(* C16  Delivery order: the chunks are consumed in the order the stream    *)
(* yields them, so the buffer held between two reads is the concatenation  *)
(* of the chunks read so far and the buffer handed to the parser is the    *)
(* concatenation of all the chunks of the stream, none dropped,            *)
(* duplicated or reordered.                                                *)
(***************************************************************************)
C16_DeliveryOrder ==
    /\ (jb.fut.some /\ jb.fut.v.state = "Suspended") =>
          Buffer = Concat(SubSeq(stream, 1, pos))
    /\ parsed # <<>> => parsed = <<Concat(stream)>>

C16_Witness ==
    /\ stream = <<Chunk(<<0>>), Chunk(<<>>), Chunk(<<1, 1>>)>>
    /\ parsed = <<<<0, 1, 1>>>>
    /\ Resolved

(***************************************************************************)
(* C17  Abort stops reading: the aggregator never reads past the first     *)
(* item that is a transport error or takes the cumulative size above the   *)
(* limit; on that item the decode resolves (Payload or Overflow) without   *)
(* waiting for end-of-data, and from then on no next() call is made, so    *)
(* the items that follow the offending one are never observed.             *)
(***************************************************************************)
C17_Aborted ==
    /\ Resolved
    /\ ContentTypeMatches
    /\ ~DeclaredAboveLimit
    /\ Offending(stream, Limit) # {}

C17_AbortStopsReading ==
    /\ [](Offending(stream, Limit) # {} => pos <= First(Offending(stream, Limit)))
    /\ [](C17_Aborted =>
            /\ pos = First(Offending(stream, Limit))
            /\ outcomes[1] = AggregatorOutcome(stream, Limit, parser)
            /\ ~outcomes[1].ok
            /\ outcomes[1].err.kind \in {"Overflow", "Payload"}
            /\ parsed = <<>>)
    /\ [][Resolved => (pos' = pos /\ nextCalls' = nextCalls)]_vars

\* aborted on an oversized chunk with a transport error still to come, and
\* polled again since
C17_Witness ==
    /\ outcomes = <<Err(Overflow)>>
    /\ pos >= 1
    /\ nextCalls >= 1
    /\ pos < Len(stream)
    /\ stream[pos + 1].isErr
    /\ lastPoll = "Panic"

(***************************************************************************)
(* C18  Isolation of concurrent decodes: however the polls of the decodes  *)
(* that share one configuration interleave, each decode enforces the       *)
(* shared limit, holds between two reads the chunks of its own stream      *)
(* only, and resolves with the outcome it produces running alone on its    *)
(* own request and stream; no step changes the shared configuration.       *)
(***************************************************************************)
\* the outcome of a decode that runs alone, all of its stream ready
C18_Alone(r, a, s, u) ==
    OuterPoll("Unresumed", FromRequestBody(r, a), s, 0, Len(s) + 1, u).res.out

C18_Isolation ==
    /\ [](\A i \in DOMAIN decs :
            /\ decs[i].outer # "NotCreated" => decs[i].jb.limit = LimitOf(appState)
            /\ (decs[i].jb.fut.some /\ decs[i].jb.fut.v.state = "Suspended") =>
                  decs[i].jb.fut.v.body =
                      Concat(SubSeq(decs[i].stream, 1, decs[i].pos))
            /\ decs[i].outcomes # <<>> =>
                  /\ decs[i].outcomes =
                        <<C18_Alone(decs[i].req, appState, decs[i].stream, parser)>>
                  /\ decs[i].outcomes =
                        <<ExpectedOutcomeOf(decs[i].req, appState, decs[i].stream,
                                            parser)>>)
    /\ [][appState' = appState]_vars

\* two decodes under a configured limit and predicate, suspended with
\* different buffers, then the first resolved while the second still waits
C18_Witness ==
    /\ appState.some
    /\ decs[1].outcomes = <<Ok(Json(<<0, 1>>))>>
    /\ decs[2].outer = "Suspended"
    /\ decs[2].jb.fut.v.body = <<1>>
    /\ decs[2].req.mime = MimeOk(MimeTextPlain)

(***************************************************************************)
(* C19  Chunking independence, as stated: on an error-free stream the      *)
(* outcome is Overflow exactly when the total size of the bytes exceeds    *)
(* the limit, and the parser's result on the whole byte sequence           *)
(* otherwise, whatever the request metadata.  It fails for a request that  *)
(* the gate or the pre-check refuses: that one yields ContentType, or      *)
(* Overflow with a body within the limit.                                  *)
(***************************************************************************)
C19_ChunkingIndependenceAsClaimed ==
    Resolved =>
        outcomes[1] = IF Len(Concat(stream)) > Limit THEN Err(Overflow)
                      ELSE WrapJson(ParseOutcome(parser, Concat(stream)))

(***************************************************************************)
(* C19  Chunking independence: on an error-free stream the outcome is a    *)
(* function of the request metadata, the limit and the byte sequence       *)
(* delivered, the same for every split of it into chunks, empty chunks     *)
(* included: ContentType when the gate fails, Overflow when the declared   *)
(* length is above the limit, and otherwise Overflow exactly when the      *)
(* total size exceeds the limit and the parser's result on the whole       *)
(* sequence when it does not.                                              *)
(***************************************************************************)
C19_OutcomeOfBytes(r, a, bytes, u) ==
    IF ~Matches(r, a) THEN Err(ContentType)
    ELSE IF DeclaredAbove(r, a) THEN Err(Overflow)
    ELSE IF Len(bytes) > LimitOf(a) THEN Err(Overflow)
    ELSE WrapJson(ParseOutcome(u, bytes))

C19_ChunkingIndependence ==
    /\ ErrorFree(stream)
    /\ Resolved => outcomes[1] = C19_OutcomeOfBytes(req, appState, Concat(stream), parser)

\* three bytes over a limit of two, delivered in chunks none of which is above
\* the limit, one of them empty
C19_Witness ==
    /\ ContentTypeMatches
    /\ ~DeclaredAboveLimit
    /\ Limit = 2
    /\ stream = <<Chunk(<<0>>), Chunk(<<>>), Chunk(<<1, 1>>)>>
    /\ outcomes = <<Err(Overflow)>>
    /\ pos = 3

(***************************************************************************)
(* C20  The declared length is used by the pre-check only: once the        *)
(* pre-check has passed the declared length is gone from the JsonBody and  *)
(* the outcome is the one the same request yields without a content-length *)
(* header.  A stream that ends with fewer or more bytes than declared,     *)
(* within the limit, is handed to the parser as it is.                     *)
(***************************************************************************)
\* the outcome of the request stripped of its content-length header
C20_WithoutLength ==
    OuterPoll("Unresumed",
              FromRequestBody([req EXCEPT !.clen = HdrAbsent], appState),
              stream, 0, Len(stream) + 1, parser).res.out

C20_DeclaredLengthFrame ==
    (ContentTypeMatches /\ ~DeclaredAboveLimit) =>
        /\ Polled => ~jb.length.some
        /\ jb.fut.some => jb.fut.v.limit = Limit
        /\ Resolved => outcomes[1] = C20_WithoutLength
        /\ (ErrorFree(stream) /\ Len(Concat(stream)) <= Limit /\ Resolved) =>
              /\ parsed = <<Concat(stream)>>
              /\ outcomes[1] = WrapJson(ParseOutcome(parser, Concat(stream)))

\* one byte declared, two delivered and accepted
C20_Witness ==
    /\ req.clen = Hdr(<<"1">>)
    /\ Len(Concat(stream)) = 2
    /\ Limit = 2
    /\ parsed = <<Concat(stream)>>
    /\ outcomes = <<Ok(Json(Concat(stream)))>>

====
